---------------------------- MODULE Spec2Model ----------------------------
(***************************************************************************)
(* Verification model of the quantumsort scripts:                          *)
(*   quantum_search_3pass.py  - the 3-pass compare-and-swap circuit         *)
(*   quantum_search_2pass.py  - the 2-pass comparator circuit               *)
(*   quantum_sort_ibm.py      - result normalisation and trial aggregation  *)
(*                                                                         *)
(* Text is modelled as a sequence of one-character strings, so "011" is    *)
(* <<"0","1","1">>; integers and characters are kept apart, and every       *)
(* conversion between them is computed digit by digit.                      *)
(*                                                                         *)
(* The circuits only ever hold computational-basis states (X, CX, CCX and   *)
(* CSWAP permute basis states), so the simulator is modelled by the         *)
(* classical action of each gate on the register.                           *)
(***************************************************************************)
EXTENDS Integers, Sequences, FiniteSets, TLC

VARIABLES
    \* ---- circuit scripts (2-pass and 3-pass) ----
    input_bits,   \* the input handed to the circuit builder
    qc,           \* the circuit built so far: a sequence of gates
    qreg,         \* simulator: value of every qubit
    creg,         \* simulator: value of every classical bit
    ip,           \* simulator: index of the next gate of qc
    cpc,          \* position of the script: "build3"/"build2", "sim", "counted", "done"
    most_common,  \* the key of the simulator's counts (one key: no superposition)
    sorted_q,     \* 3-pass script: the bits extracted from the counts key
    \* ---- normaliser called on its own ----
    call,         \* the call made: function name and arguments
    ret,          \* what the call returned or raised
    \* ---- run(trials, shots, hw, backend_name) ----
    trials, shots, hw,
    pc,           \* "start", "loop", "summary", "done", "raised"
    err,          \* the exception that ended run, "none" otherwise
    done,         \* number of loop iterations completed
    aggregated,   \* the Counter of line 107
    counts,       \* the counts mapping of the last completed trial
    srcs,         \* per completed trial, the branch of lines 111-129 it took
    out,          \* what has been printed: a sequence of records
    success_pct   \* the reported percentage, as a fraction num/den

vars == << input_bits, qc, qreg, creg, ip, cpc, most_common, sorted_q, call, ret,
           trials, shots, hw, pc, err, done, aggregated, counts, srcs, out,
           success_pct >>

circuitVars == << input_bits, qc, qreg, creg, ip, cpc, most_common, sorted_q >>
normVars    == << call, ret >>
runVars     == << trials, shots, hw, pc, err, done, aggregated, counts, srcs,
                  out, success_pct >>

(***************************************************************************)
(* Text helpers                                                            *)
(***************************************************************************)
Digits == << "0", "1", "2", "3", "4", "5", "6", "7", "8", "9" >>

\* str(n) of a natural number: its decimal digits
RECURSIVE Str(_)
Str(n) == IF n < 10 THEN << Digits[n + 1] >>
          ELSE Str(n \div 10) \o << Digits[(n % 10) + 1] >>

\* bin(n) without prefix: the binary digits of a natural number, "0" for 0
RECURSIVE Bin(_)
Bin(n) == IF n < 2 THEN << Digits[n + 1] >>
          ELSE Bin(n \div 2) \o << Digits[(n % 2) + 1] >>

RECURSIVE Zeros(_)
Zeros(k) == IF k <= 0 THEN << >> ELSE << "0" >> \o Zeros(k - 1)

\* faulty variant: format(n, "b"), without the zero padding
FormatBinUnpadded(n, width) == Bin(n)

\* format(n, f"0{width}b"): binary digits, left-padded with "0" up to width;
\* a number that needs more digits than width is not truncated
FormatBin(n, width) == Zeros(width - Len(Bin(n))) \o Bin(n)

\* faulty variant: the bits joined last to first
RECURSIVE JoinStrIntReversed(_)
JoinStrIntReversed(sample) ==
    IF sample = << >> THEN << >>
    ELSE JoinStrIntReversed(Tail(sample)) \o Str(Head(sample))

\* ''.join(str(int(b)) for b in sample)
RECURSIVE JoinStrInt(_)
JoinStrInt(sample) == IF sample = << >> THEN << >>
                      ELSE Str(Head(sample)) \o JoinStrInt(Tail(sample))

(***************************************************************************)
(* Gates and their action on a basis state                                 *)
(***************************************************************************)
Gate(op, qs, cs) == [op |-> op, qs |-> qs, cs |-> cs]
GX(a)            == Gate("x", << a >>, << >>)
GCX(c, t)        == Gate("cx", << c, t >>, << >>)
GCCX(c1, c2, t)  == Gate("ccx", << c1, c2, t >>, << >>)
GCSWAP(c, a, b)  == Gate("cswap", << c, a, b >>, << >>)
GBarrier         == Gate("barrier", << >>, << >>)
GMeasure(qs, cs) == Gate("measure", qs, cs)

Xor(a, b) == (a + b) % 2

\* get_counts() key of a register of n classical bits: c[n-1] first, c[0] last
CountsKey(c, n) == [t \in 1..n |-> Digits[c[n - t] + 1]]

\* int(ch) of a digit character
IntOfChar(ch) == CHOOSE d \in 0..9 : Digits[d + 1] = ch

(***************************************************************************)
(* Variables a specification does not use keep these values                *)
(***************************************************************************)
IdleCircuit ==
    /\ input_bits = << >> /\ qc = << >> /\ qreg = << >> /\ creg = << >>
    /\ ip = 0 /\ cpc = "idle" /\ most_common = << >> /\ sorted_q = << >>

IdleNorm == call = [fn |-> "none"] /\ ret = [kind |-> "none"]

IdleRun ==
    /\ trials = 0 /\ shots = 0 /\ hw = FALSE /\ pc = "idle" /\ err = "none"
    /\ done = 0 /\ aggregated = << >> /\ counts = << >> /\ srcs = << >>
    /\ out = << >> /\ success_pct = [num |-> 0, den |-> 0]

(***************************************************************************)
(* quantum_search_3pass.py                                                 *)
(***************************************************************************)
\* the gates compare_and_swap appends to the circuit
compare_and_swap(i, j, anc_notj, anc_cond) ==
    << GX(j), GCX(j, anc_notj), GX(j),
       GCCX(i, anc_notj, anc_cond),
       GCSWAP(anc_cond, i, j),
       GCCX(i, anc_notj, anc_cond),
       GCX(j, anc_notj) >>

\* for idx, bit in enumerate(input_bits): if bit == 1: qc.x(idx)
RECURSIVE LoadBits(_, _, _)
LoadBits(bits, idx, one) ==
    IF idx >= Len(bits) THEN << >>
    ELSE (IF bits[idx + 1] = one THEN << GX(idx) >> ELSE << >>)
         \o LoadBits(bits, idx + 1, one)

quantum_sort_3pass(bits) ==
    LoadBits(bits, 0, 1)
    \o compare_and_swap(0, 1, 3, 4)
    \o compare_and_swap(1, 2, 3, 4)
    \o compare_and_swap(0, 1, 3, 4)
    \o << GBarrier >>
    \o << GMeasure(<< 0, 1, 2, 3, 4 >>, << 4, 3, 2, 1, 0 >>) >>

(***************************************************************************)
(* quantum_search_2pass.py                                                 *)
(***************************************************************************)
comparator(a, b, ancilla) ==
    << GCX(b, ancilla), GCX(a, ancilla), GCCX(ancilla, a, b),
       GCX(a, ancilla), GCX(b, ancilla) >>

run_quantum_sort(bits) ==
    LoadBits(bits, 0, "1")
    \o << GBarrier >>
    \o comparator(0, 1, 3)
    \o comparator(1, 2, 3)
    \o << GBarrier >>
    \o << GMeasure(<< 0, 1, 2 >>, << 0, 1, 2 >>) >>

(***************************************************************************)
(* The simulator: one gate per step on the basis state                     *)
(***************************************************************************)
AtGate(op) == cpc = "sim" /\ ip <= Len(qc) /\ qc[ip].op = op

ApplyX ==
    /\ AtGate("x")
    /\ LET a == qc[ip].qs[1]
       IN  qreg' = [qreg EXCEPT ![a] = 1 - @]
    /\ ip' = ip + 1
    /\ UNCHANGED << input_bits, qc, creg, cpc, most_common, sorted_q >>
    /\ UNCHANGED << normVars, runVars >>

ApplyCX ==
    /\ AtGate("cx")
    /\ LET c == qc[ip].qs[1]
           t == qc[ip].qs[2]
       IN  qreg' = [qreg EXCEPT ![t] = Xor(@, qreg[c])]
    /\ ip' = ip + 1
    /\ UNCHANGED << input_bits, qc, creg, cpc, most_common, sorted_q >>
    /\ UNCHANGED << normVars, runVars >>

ApplyCCX ==
    /\ AtGate("ccx")
    /\ LET c1 == qc[ip].qs[1]
           c2 == qc[ip].qs[2]
           t  == qc[ip].qs[3]
       IN  qreg' = [qreg EXCEPT ![t] = Xor(@, qreg[c1] * qreg[c2])]
    /\ ip' = ip + 1
    /\ UNCHANGED << input_bits, qc, creg, cpc, most_common, sorted_q >>
    /\ UNCHANGED << normVars, runVars >>

ApplyCSWAP ==
    /\ AtGate("cswap")
    /\ LET c == qc[ip].qs[1]
           a == qc[ip].qs[2]
           b == qc[ip].qs[3]
       IN  qreg' = IF qreg[c] = 1
                   THEN [qreg EXCEPT ![a] = qreg[b], ![b] = qreg[a]]
                   ELSE qreg
    /\ ip' = ip + 1
    /\ UNCHANGED << input_bits, qc, creg, cpc, most_common, sorted_q >>
    /\ UNCHANGED << normVars, runVars >>

ApplyBarrier ==
    /\ AtGate("barrier")
    /\ ip' = ip + 1
    /\ UNCHANGED << input_bits, qc, qreg, creg, cpc, most_common, sorted_q >>
    /\ UNCHANGED << normVars, runVars >>

\* measure(qs, cs): classical bit cs[k] receives qubit qs[k]
ApplyMeasure ==
    /\ AtGate("measure")
    /\ LET qs == qc[ip].qs
           cs == qc[ip].cs
       IN  creg' = [c \in DOMAIN creg |->
                      IF \E k \in DOMAIN cs : cs[k] = c
                      THEN qreg[qs[CHOOSE k \in DOMAIN cs : cs[k] = c]]
                      ELSE creg[c]]
    /\ ip' = ip + 1
    /\ UNCHANGED << input_bits, qc, qreg, cpc, most_common, sorted_q >>
    /\ UNCHANGED << normVars, runVars >>

\* result.get_counts(): every shot of a basis-state circuit gives the same key
GetCounts ==
    /\ cpc = "sim" /\ ip = Len(qc) + 1
    /\ most_common' = CountsKey(creg, Cardinality(DOMAIN creg))
    /\ cpc' = "counted"
    /\ UNCHANGED << input_bits, qc, qreg, creg, ip, sorted_q >>
    /\ UNCHANGED << normVars, runVars >>

\* ---- 3-pass script ----
Build3 ==
    /\ cpc = "build3"
    /\ qc' = quantum_sort_3pass(input_bits)
    /\ qreg' = [q \in 0..4 |-> 0]
    /\ creg' = [c \in 0..4 |-> 0]
    /\ ip' = 1
    /\ cpc' = "sim"
    /\ UNCHANGED << input_bits, most_common, sorted_q >>
    /\ UNCHANGED << normVars, runVars >>

\* sorted_q = [int(most_common[4]), int(most_common[3]), int(most_common[2])]
Extract3 ==
    /\ cpc = "counted"
    /\ sorted_q' = << IntOfChar(most_common[5]), IntOfChar(most_common[4]),
                      IntOfChar(most_common[3]) >>
    /\ cpc' = "done"
    /\ UNCHANGED << input_bits, qc, qreg, creg, ip, most_common >>
    /\ UNCHANGED << normVars, runVars >>

BitLists3 == [1..3 -> {0, 1}]

Init3 ==
    /\ input_bits \in BitLists3
    /\ qc = << >> /\ qreg = << >> /\ creg = << >> /\ ip = 0
    /\ cpc = "build3" /\ most_common = << >> /\ sorted_q = << >>
    /\ IdleNorm /\ IdleRun

Next3 ==
    \/ Build3 \/ ApplyX \/ ApplyCX \/ ApplyCCX \/ ApplyCSWAP
    \/ ApplyBarrier \/ ApplyMeasure \/ GetCounts \/ Extract3

Spec3Pass == Init3 /\ [][Next3]_vars

\* ---- 2-pass script ----
Build2 ==
    /\ cpc = "build2"
    /\ qc' = run_quantum_sort(input_bits)
    /\ qreg' = [q \in 0..3 |-> 0]
    /\ creg' = [c \in 0..2 |-> 0]
    /\ ip' = 1
    /\ cpc' = "sim"
    /\ UNCHANGED << input_bits, most_common, sorted_q >>
    /\ UNCHANGED << normVars, runVars >>

\* inputs = [format(i, "03b") for i in range(8)]
inputs == { FormatBin(i, 3) : i \in 0..7 }

Init2 ==
    /\ input_bits \in inputs
    /\ qc = << >> /\ qreg = << >> /\ creg = << >> /\ ip = 0
    /\ cpc = "build2" /\ most_common = << >> /\ sorted_q = << >>
    /\ IdleNorm /\ IdleRun

Next2 ==
    \/ Build2 \/ ApplyX \/ ApplyCX \/ ApplyCCX
    \/ ApplyBarrier \/ ApplyMeasure \/ GetCounts

Spec2Pass == Init2 /\ [][Next2]_vars

\* number of 1s among the first three entries of a register or list
Ones(r, base) == r[base] + r[base + 1] + r[base + 2]
OnesOfChars(s) == Cardinality({ k \in DOMAIN s : s[k] = "1" })

\* C8: after the 3-pass circuit has run, the data qubits are sorted ascending
\* and hold as many 1s as the input.  (Violated: see C10.)
C8_Sorted3Pass ==
    (cpc \in {"counted", "done"}) =>
        /\ qreg[0] <= qreg[1] /\ qreg[1] <= qreg[2]
        /\ Ones(qreg, 0) = Ones(input_bits, 1)

\* C10: compare_and_swap entered with both ancillas 0 returns with both 0,
\* so every pass of quantum_sort_3pass starts with clean ancillas.
PassBoundary(k) == cpc = "sim" /\ ip = Len(LoadBits(input_bits, 0, 1)) + 7 * k + 1
C10_AncillasUncomputed ==
    (cpc = "sim" /\ \E k \in 1..3 : PassBoundary(k)) =>
        (qreg[3] = 0 /\ qreg[4] = 0)

\* C9: the 2-pass circuit measures the input bits in sorted order: the data
\* bits are monotone along q[0], q[1], q[2] and hold as many 1s as the input.
C9_Sorted2Pass ==
    (cpc = "counted") =>
        /\ \/ (creg[0] <= creg[1] /\ creg[1] <= creg[2])
           \/ (creg[0] >= creg[1] /\ creg[1] >= creg[2])
        /\ Ones(creg, 0) = OnesOfChars(input_bits)

(***************************************************************************)
(* quantum_sort_ibm.py: the normaliser                                     *)
(***************************************************************************)
TARGET_STATE == << "0", "1", "1" >>

\* num_bits of the circuit's classical register (QuantumCircuit(3, 3)), also
\* the default of getattr(bitarr, "num_bits", 3)
DefaultWidth == 3

\* ---- bounds of the inputs ----
MaxWidth  == 3      \* largest declared num_bits
MaxRows   == 3      \* longest bit-array read through tolist()
MaxArrayRows == 1   \* longest bit-array read through _array or array
MaxKeys   == 2      \* most keys of a quasi-distribution
ProbDenom == 10     \* probabilities are multiples of 1/ProbDenom
MaxQShots == 10     \* largest shots of a quasi-distribution conversion
\* integers a row or key may hold
SampleValues == {0, 3, 4}

RECURSIVE Pow2(_)
Pow2(k) == IF k <= 0 THEN 1 ELSE 2 * Pow2(k - 1)

\* ---- Counter ----
EmptyCounter == << >>

\* counter[s] += n, creating the key when absent
CounterAdd(c, s, n) ==
    IF s \in DOMAIN c THEN [c EXCEPT ![s] = @ + n]
    ELSE [t \in DOMAIN c \cup {s} |-> IF t = s THEN n ELSE c[t]]

\* Counter(strings): one count per element, in order
RECURSIVE CounterOfFrom(_, _)
CounterOfFrom(c, strings) ==
    IF strings = << >> THEN c
    ELSE CounterOfFrom(CounterAdd(c, Head(strings), 1), Tail(strings))

CounterOf(strings) == CounterOfFrom(EmptyCounter, strings)

\* sum(c.values())
RECURSIVE SumOver(_, _)
SumOver(c, keys) ==
    IF keys = {} THEN 0
    ELSE LET k == CHOOSE x \in keys : TRUE
         IN  c[k] + SumOver(c, keys \ {k})

SumValues(c) == SumOver(c, DOMAIN c)

\* c.get(s, 0)
Get(c, s) == IF s \in DOMAIN c THEN c[s] ELSE 0

\* ---- rows of a bit-array ----
SeqRow(items) == [kind |-> "seq", items |-> items, val |-> 0]
IntRow(n)     == [kind |-> "int", items |-> << >>, val |-> n]
\* a row that is neither a list or tuple nor an int (None, a float, a str)
OtherRow      == [kind |-> "other", items |-> << >>, val |-> 0]

Ok(strings)  == [kind |-> "ok", exc |-> "none", strings |-> strings]
Raise(exc)   == [kind |-> "raise", exc |-> exc, strings |-> << >>]

\* faulty variant: a row of unrecognised shape is skipped (continue instead of raise)
RECURSIVE ConvertRowsSkipping(_, _, _)
ConvertRowsSkipping(rows, width, strings) ==
    IF rows = << >> THEN [kind |-> "ok", exc |-> "none", strings |-> strings]
    ELSE LET sample == Head(rows)
         IN  IF sample.kind = "seq" /\ Len(sample.items) = width
             THEN ConvertRowsSkipping(Tail(rows), width,
                                      Append(strings, JoinStrInt(sample.items)))
             ELSE IF sample.kind = "seq" /\ Len(sample.items) = 1
             THEN ConvertRowsSkipping(Tail(rows), width,
                      Append(strings, FormatBin(sample.items[1], width)))
             ELSE IF sample.kind = "int"
             THEN ConvertRowsSkipping(Tail(rows), width,
                      Append(strings, FormatBin(sample.val, width)))
             ELSE ConvertRowsSkipping(Tail(rows), width, strings)

\* the for loop of lines 78-89, from the strings appended so far
RECURSIVE ConvertRows(_, _, _)
ConvertRows(rows, width, strings) ==
    IF rows = << >> THEN Ok(strings)
    ELSE LET sample == Head(rows)
         IN  IF sample.kind = "seq" /\ Len(sample.items) = width
             THEN ConvertRows(Tail(rows), width,
                              Append(strings, JoinStrInt(sample.items)))
             ELSE IF sample.kind = "seq" /\ Len(sample.items) = 1
             THEN ConvertRows(Tail(rows), width,
                              Append(strings, FormatBin(sample.items[1], width)))
             ELSE IF sample.kind = "int"
             THEN ConvertRows(Tail(rows), width,
                              Append(strings, FormatBin(sample.val, width)))
             ELSE Raise("RuntimeError")

\* width = getattr(bitarr, "num_bits", 3)
WidthOf(bitarr) == IF bitarr.has_num_bits THEN bitarr.num_bits ELSE DefaultWidth

\* bitarr.access: the first of tolist, _array, array the object has, or "none"
_bitarray_to_strings(bitarr) ==
    IF bitarr.access = "none" THEN Raise("RuntimeError")
    ELSE ConvertRows(bitarr.rows, WidthOf(bitarr), << >>)

\* ---- keys of a quasi-distribution ----
StrKey(text)       == [kind |-> "str", text |-> text, items |-> << >>]
BitArrayKey(items) == [kind |-> "bitarray", text |-> << >>, items |-> items]
IterKey(items)     == [kind |-> "iter", text |-> << >>, items |-> items]
\* a key that is neither text, nor has to01(), nor is iterable: an int
IntKey(n)          == [kind |-> "int", text |-> << >>, items |-> << n >>]

\* BitArray.to01()
To01(items) == [k \in DOMAIN items |-> IF items[k] = 0 THEN "0" ELSE "1"]

_to_bits(key) ==
    IF key.kind = "str" THEN key.text
    ELSE IF key.kind = "bitarray" THEN To01(key.items)
    ELSE IF key.kind = "iter" THEN JoinStrInt(key.items)
    ELSE Str(key.items[1])

\* round(num / den) for den > 0: to nearest, ties to even
Round(num, den) ==
    LET q == num \div den
        r == num % den
    IN  IF 2 * r < den THEN q
        ELSE IF 2 * r > den THEN q + 1
        ELSE IF q % 2 = 0 THEN q ELSE q + 1

\* faulty variant: int(round(p) * shots)
CountOfRoundedProb(num, nshots) == Round(num, ProbDenom) * nshots

\* int(round(p * shots)) for p = num / ProbDenom
CountOfProb(num, nshots) == Round(num * nshots, ProbDenom)

\* { _to_bits(k): int(round(p * shots)) for k, p in zip(q.keys(), q.probabilities()) }
\* q maps each key to the numerator of its probability.  The keys of a
\* distribution denote distinct outcomes, so one key gives each bitstring.
QuasiToCounts(q, nshots) ==
    [s \in { _to_bits(k) : k \in DOMAIN q } |->
        CountOfProb(q[CHOOSE k \in DOMAIN q : _to_bits(k) = s], nshots)]

(***************************************************************************)
(* Inputs of the normaliser                                                *)
(***************************************************************************)
\* the W bits of n, most significant first
BitsOf(n, W) == [k \in 1..W |-> (n \div Pow2(W - k)) % 2]

\* the number a sequence of 0/1 integers denotes, most significant first
RECURSIVE BitsVal(_)
BitsVal(items) ==
    IF items = << >> THEN 0
    ELSE Head(items) * Pow2(Len(items) - 1) + BitsVal(Tail(items))

\* the number a text of "0"/"1" denotes
StrVal(text) == BitsVal([k \in DOMAIN text |-> IF text[k] = "1" THEN 1 ELSE 0])

BitStrings(W) == [1..W -> {"0", "1"}]

BitRows(W)  == { SeqRow(BitsOf(n, W)) : n \in { v \in SampleValues : v < Pow2(W) } }
SingleRows  == { SeqRow(<< n >>) : n \in SampleValues }
IntRows     == { IntRow(n) : n \in SampleValues }
\* rows of no recognised shape: a list of the wrong length, and a non-int
BadRows(W)  == { SeqRow(IF W = 2 THEN << >> ELSE << 0, 1 >>), OtherRow }
RowUniverse(W) == BitRows(W) \cup SingleRows \cup IntRows \cup BadRows(W)

NumBitsOptions ==
    { [has |-> FALSE, n |-> 0] } \cup { [has |-> TRUE, n |-> w] : w \in 1..MaxWidth }

BitArr(access, nb, rows) ==
    [access |-> access, has_num_bits |-> nb.has, num_bits |-> nb.n, rows |-> rows]

\* the first of tolist, _array, array the object has; "none": it has none
\* of them, and then there are no rows to read
Accessors == {"tolist", "_array", "array", "none"}

\* the shapes the docstring of _bitarray_to_strings lists, with the integers
\* in range for the width
RowRecognised(row, W) ==
    \/ row.kind = "seq" /\ Len(row.items) = W
    \/ row.kind = "seq" /\ Len(row.items) = 1
    \/ row.kind = "int"

RowValid(row, W) ==
    \/ row.kind = "seq" /\ Len(row.items) = W
         /\ \A k \in DOMAIN row.items : row.items[k] \in {0, 1}
    \/ row.kind = "seq" /\ Len(row.items) = 1
         /\ row.items[1] >= 0 /\ row.items[1] < Pow2(W)
    \/ row.kind = "int" /\ row.val >= 0 /\ row.val < Pow2(W)

\* the number a valid row denotes
RowVal(row, W) ==
    IF row.kind = "int" THEN row.val
    ELSE IF Len(row.items) = W THEN BitsVal(row.items)
    ELSE row.items[1]

\* row encodes bitstring s of width W
Encodes(row, s, W) == s \in BitStrings(W) /\ StrVal(s) = RowVal(row, W)

\* keys of a quasi-distribution over a register of DefaultWidth bits
KeysOf(v) ==
    { StrKey(To01(BitsOf(v, DefaultWidth))), BitArrayKey(BitsOf(v, DefaultWidth)),
      IterKey(BitsOf(v, DefaultWidth)), IntKey(v) }

\* the outcome a key denotes
KeyOutcome(key) ==
    IF key.kind = "str" THEN StrVal(key.text)
    ELSE IF key.kind = "int" THEN key.items[1]
    ELSE BitsVal(key.items)

KeyValid(key) ==
    \/ key.kind = "str" /\ key.text \in BitStrings(DefaultWidth)
    \/ key.kind \in {"bitarray", "iter"} /\ Len(key.items) = DefaultWidth
         /\ \A k \in DOMAIN key.items : key.items[k] \in {0, 1}

KeySets(maxKeys) ==
    { K \in SUBSET (UNION { KeysOf(v) : v \in SampleValues }) :
        /\ Cardinality(K) >= 1 /\ Cardinality(K) <= maxKeys
        /\ \A k1 \in K : \A k2 \in K : k1 # k2 => KeyOutcome(k1) # KeyOutcome(k2) }

\* numerators of quasi-probabilities over ProbDenom: a quasi-probability may
\* be slightly negative, and another then exceeds 1
Numerators == (0 - 1)..(ProbDenom + 1)

\* quasi-distributions: at most maxKeys distinct outcomes, quasi-probabilities
\* summing to 1
QuasiDists(maxKeys) ==
    UNION { { q \in [K -> Numerators] : SumValues(q) = ProbDenom }
            : K \in KeySets(maxKeys) }

(***************************************************************************)
(* The normaliser called on its own                                        *)
(***************************************************************************)
RowLimit(access) ==
    IF access = "tolist" THEN MaxRows
    ELSE IF access = "none" THEN 0 ELSE MaxArrayRows

\* counts = Counter(_bitarray_to_strings(bitarr))        (lines 124-126)
CallBitArray ==
    /\ call.fn = "none"
    /\ \E access \in Accessors : \E nb \in NumBitsOptions :
       \E k \in 0..RowLimit(access) :
       \E rows \in [1..k -> RowUniverse(IF nb.has THEN nb.n ELSE DefaultWidth)] :
         LET bitarr == BitArr(access, nb, rows)
             r == _bitarray_to_strings(bitarr)
         IN  /\ call' = [fn |-> "_bitarray_to_strings", bitarr |-> bitarr]
             /\ ret' = [kind |-> r.kind, exc |-> r.exc, strings |-> r.strings,
                        counts |-> IF r.kind = "ok" THEN CounterOf(r.strings)
                                   ELSE EmptyCounter]
    /\ UNCHANGED << circuitVars, runVars >>

\* counts = { _to_bits(k): int(round(p * shots)) ... }     (lines 117-121)
CallQuasi ==
    /\ call.fn = "none"
    /\ \E q \in QuasiDists(MaxKeys) : \E n \in 0..MaxQShots :
         /\ call' = [fn |-> "quasi", q |-> q, shots |-> n]
         /\ ret' = [kind |-> "ok", exc |-> "none", strings |-> << >>,
                    counts |-> QuasiToCounts(q, n)]
    /\ UNCHANGED << circuitVars, runVars >>

InitNorm == IdleCircuit /\ IdleNorm /\ IdleRun

NextNorm == CallBitArray \/ CallQuasi

SpecNorm == InitNorm /\ [][NextNorm]_vars

(***************************************************************************)
(* Claims about the normaliser (SpecNorm)                                  *)
(***************************************************************************)
BitArrayCalled == call.fn = "_bitarray_to_strings" /\ call.bitarr.access # "none"
CallWidth      == WidthOf(call.bitarr)
CallRows       == call.bitarr.rows

AllRowsValid ==
    \A i \in DOMAIN CallRows : RowValid(CallRows[i], CallWidth)

\* C2: when every row of the bit-array has a recognised shape, the counts
\* give each bitstring the number of rows that encode it, no other key
\* appears, and the counts sum to the number of rows.
C2_CountsMatchRows ==
    (BitArrayCalled /\ AllRowsValid) =>
        /\ ret.kind = "ok"
        /\ \A s \in BitStrings(CallWidth) \cup DOMAIN ret.counts :
             Get(ret.counts, s)
               = Cardinality({ i \in DOMAIN CallRows :
                                 Encodes(CallRows[i], s, CallWidth) })
        /\ \A s \in DOMAIN ret.counts : ret.counts[s] > 0
        /\ SumValues(ret.counts) = Len(CallRows)

\* the example of the specification: [[0,1,1],[0,1,1],[1,0,0]] with W = 3
C2_Witness ==
    /\ BitArrayCalled /\ CallWidth = 3
    /\ CallRows = << SeqRow(<< 0, 1, 1 >>), SeqRow(<< 0, 1, 1 >>),
                     SeqRow(<< 1, 0, 0 >>) >>
    /\ ret.kind = "ok"
    /\ DOMAIN ret.counts = { << "0", "1", "1" >>, << "1", "0", "0" >> }
    /\ ret.counts[<< "0", "1", "1" >>] = 2
    /\ ret.counts[<< "1", "0", "0" >>] = 1

QuasiCalled == call.fn = "quasi"
AllKeysValid == \A k \in DOMAIN call.q : KeyValid(k)

\* C3: for valid inputs every key of the counts mapping has length W
C3_KeysHaveWidth ==
    /\ (BitArrayCalled /\ AllRowsValid) =>
          (ret.kind = "ok" /\ \A s \in DOMAIN ret.counts : Len(s) = CallWidth)
    /\ (QuasiCalled /\ AllKeysValid) =>
          (\A s \in DOMAIN ret.counts : Len(s) = DefaultWidth)

\* rows of all three shapes whose integers need zero padding, absent num_bits
C3_Witness ==
    /\ BitArrayCalled /\ ~call.bitarr.has_num_bits
    /\ CallRows = << SeqRow(<< 0, 1, 1 >>), SeqRow(<< 0 >>), IntRow(3) >>
    /\ ret.kind = "ok"
    /\ DOMAIN ret.counts = { << "0", "0", "0" >>, << "0", "1", "1" >> }

SomeRowUnrecognised ==
    \E i \in DOMAIN CallRows : ~RowRecognised(CallRows[i], CallWidth)

\* C4: a row of unrecognised shape, wherever it stands, makes the call raise
\* and return no strings
C4_BadRowRaises ==
    (BitArrayCalled /\ SomeRowUnrecognised) =>
        /\ ret.kind = "raise" /\ ret.exc = "RuntimeError"
        /\ ret.strings = << >> /\ ret.counts = EmptyCounter

\* a row of length 2 with W = 3, between two valid rows
C4_Witness ==
    /\ BitArrayCalled /\ CallWidth = 3
    /\ CallRows = << SeqRow(<< 0, 1, 1 >>), SeqRow(<< 0, 1 >>), IntRow(4) >>
    /\ ret.kind = "raise"

Abs(x) == IF x < 0 THEN -x ELSE x

\* C5: every key k with probability p has count round(p * shots), the
\* integer nearest to p * shots, under its canonical bitstring, and the sum
\* of the counts is within one per key of shots
C5_QuasiCounts ==
    (QuasiCalled /\ AllKeysValid) =>
        /\ \A k \in DOMAIN call.q :
             /\ To01(BitsOf(KeyOutcome(k), DefaultWidth)) \in DOMAIN ret.counts
             /\ LET c == ret.counts[To01(BitsOf(KeyOutcome(k), DefaultWidth))]
                IN  2 * Abs(c * ProbDenom - call.q[k] * call.shots) <= ProbDenom
        /\ Cardinality(DOMAIN ret.counts) = Cardinality(DOMAIN call.q)
        /\ Abs(SumValues(ret.counts) - call.shots) <= Cardinality(DOMAIN call.q)

\* the example of the specification: {"011": 0.6, "100": 0.4}, shots = 10
C5_Witness ==
    /\ QuasiCalled /\ call.shots = 10
    /\ DOMAIN call.q = { StrKey(<< "0", "1", "1" >>), StrKey(<< "1", "0", "0" >>) }
    /\ call.q[StrKey(<< "0", "1", "1" >>)] * 10 = 6 * ProbDenom
    /\ call.q[StrKey(<< "1", "0", "0" >>)] * 10 = 4 * ProbDenom
    /\ ret.counts[<< "0", "1", "1" >>] = 6
    /\ ret.counts[<< "1", "0", "0" >>] = 4

(***************************************************************************)
(* quantum_sort_ibm.py: run(trials, shots, hw=..., backend_name=...)       *)
(***************************************************************************)
MaxTrials == 2      \* largest --trials
MaxShots  == 2      \* largest --shots
\* the outcomes the backend of a run returns: the target and one other
RunValues == {3, 4}

\* faulty variant: dict.update, which overwrites the counts instead of adding them
UpdateOverwrites(c, mapping) ==
    [k \in DOMAIN c \cup DOMAIN mapping |->
        IF k \in DOMAIN mapping THEN mapping[k] ELSE c[k]]

\* aggregated.update(counts): add every count of the mapping
RECURSIVE UpdateFrom(_, _, _)
UpdateFrom(c, mapping, keys) ==
    IF keys = {} THEN c
    ELSE LET k == CHOOSE x \in keys : TRUE
         IN  UpdateFrom(CounterAdd(c, k, mapping[k]), mapping, keys \ {k})

Update(c, mapping) == UpdateFrom(c, mapping, DOMAIN mapping)

\* ---- what the backend can return for one trial ----
RunStrings == { To01(BitsOf(v, DefaultWidth)) : v \in RunValues }

\* job_res.get_counts(): the observed bitstrings, counts summing to shots
FlatCounts(n) ==
    UNION { { c \in [K -> 1..n] : SumValues(c) = n } : K \in SUBSET RunStrings }

RunRows ==
    { SeqRow(BitsOf(v, DefaultWidth)) : v \in RunValues }
    \cup { SeqRow(<< v >>) : v \in RunValues }
    \cup { IntRow(v) : v \in RunValues }
    \cup BadRows(DefaultWidth)

RunNumBits == { [has |-> FALSE, n |-> 0], [has |-> TRUE, n |-> DefaultWidth] }

RunKeySets ==
    { K \in SUBSET (UNION { KeysOf(v) \ { IntKey(v) } : v \in RunValues }) :
        /\ K # {}
        /\ \A k1 \in K : \A k2 \in K : k1 # k2 => KeyOutcome(k1) # KeyOutcome(k2) }

RunQuasiDists ==
    UNION { { q \in [K -> Numerators] : SumValues(q) = ProbDenom }
            : K \in RunKeySets }

NoOutput == [trial_lines |-> 0, header |-> FALSE, footer |-> FALSE]

InitRun ==
    /\ IdleCircuit /\ IdleNorm
    /\ trials \in -1..MaxTrials
    /\ shots \in 0..MaxShots
    /\ hw \in BOOLEAN
    /\ pc = "start" /\ err = "none" /\ done = 0
    /\ aggregated = EmptyCounter /\ counts = EmptyCounter /\ srcs = << >>
    /\ out = NoOutput /\ success_pct = [num |-> 0, den |-> 0]

\* lines 95-107 with the runtime installed (or hw false)
StartOk ==
    /\ pc = "start"
    /\ pc' = "loop"
    /\ aggregated' = EmptyCounter
    /\ UNCHANGED << trials, shots, hw, err, done, counts, srcs, out, success_pct >>
    /\ UNCHANGED << circuitVars, normVars >>

\* lines 95-97: hw and QiskitRuntimeService is None
StartImportError ==
    /\ pc = "start" /\ hw
    /\ pc' = "raised" /\ err' = "ImportError"
    /\ UNCHANGED << trials, shots, hw, done, aggregated, counts, srcs, out,
                    success_pct >>
    /\ UNCHANGED << circuitVars, normVars >>

InLoop == pc = "loop" /\ done < trials

\* lines 131-132, then the next iteration
FoldTrial(src, cnts) ==
    /\ counts' = cnts
    /\ aggregated' = Update(aggregated, cnts)
    /\ out' = [out EXCEPT !.trial_lines = @ + 1]
    /\ done' = done + 1
    /\ srcs' = Append(srcs, [src |-> src, total |-> SumValues(cnts)])
    /\ UNCHANGED << trials, shots, hw, pc, err, success_pct >>
    /\ UNCHANGED << circuitVars, normVars >>

\* an exception leaves run: nothing after the raising statement happens
RaiseFrom(exc) ==
    /\ pc' = "raised" /\ err' = exc
    /\ UNCHANGED << trials, shots, hw, done, aggregated, counts, srcs, out,
                    success_pct >>
    /\ UNCHANGED << circuitVars, normVars >>

\* lines 128-129: the local simulator
TrialSim ==
    /\ InLoop /\ ~hw
    /\ \E c \in FlatCounts(shots) : FoldTrial("flat", c)

\* lines 113, 116-121: the sampler returns a quasi-distribution
TrialQuasi ==
    /\ InLoop /\ hw
    /\ \E q \in RunQuasiDists : FoldTrial("quasi", QuasiToCounts(q, shots))

\* lines 113, 123-126: the sampler returns shots rows in a bit-array
TrialBitArray ==
    /\ InLoop /\ hw
    /\ \E access \in Accessors : \E nb \in RunNumBits :
       \E rows \in [1..(IF access = "none" THEN 0 ELSE shots) -> RunRows] :
         LET r == _bitarray_to_strings(BitArr(access, nb, rows))
         IN  IF r.kind = "ok"
             THEN FoldTrial("bitarray", CounterOf(r.strings))
             ELSE RaiseFrom(r.exc)

\* faulty variant: the failure is caught and logged, and the loop goes on
TrialBackendSwallowed ==
    /\ InLoop
    /\ err' = "BackendError"
    /\ done' = done + 1
    /\ UNCHANGED << trials, shots, hw, pc, aggregated, counts, srcs, out,
                    success_pct >>
    /\ UNCHANGED << circuitVars, normVars >>

\* lines 113 and 128: sampler.run(...).result() or backend.run(...).result()
\* raises (network error, backend unavailable)
TrialBackendFails ==
    /\ InLoop
    /\ RaiseFrom("BackendError")

\* lines 134-142 with the footer printed
SummaryOk ==
    /\ pc = "loop" /\ done >= trials
    /\ trials * shots # 0
    /\ success_pct' = [num |-> 100 * Get(aggregated, TARGET_STATE),
                       den |-> trials * shots]
    /\ out' = [out EXCEPT !.header = TRUE, !.footer = TRUE]
    /\ pc' = "done"
    /\ UNCHANGED << trials, shots, hw, err, done, aggregated, counts, srcs >>
    /\ UNCHANGED << circuitVars, normVars >>

\* lines 134-141 with total = 0: the header is printed, then 100 * cnt / total
\* (line 137 or line 141) raises ZeroDivisionError
SummaryZeroDivision ==
    /\ pc = "loop" /\ done >= trials
    /\ trials * shots = 0
    /\ out' = [out EXCEPT !.header = TRUE]
    /\ pc' = "raised" /\ err' = "ZeroDivisionError"
    /\ UNCHANGED << trials, shots, hw, done, aggregated, counts, srcs,
                    success_pct >>
    /\ UNCHANGED << circuitVars, normVars >>

Next ==
    \/ StartOk \/ StartImportError
    \/ TrialSim \/ TrialQuasi \/ TrialBitArray \/ TrialBackendFails
    \/ SummaryOk \/ SummaryZeroDivision

Spec == InitRun /\ [][Next]_vars

(***************************************************************************)
(* Claims about run (Spec)                                                 *)
(***************************************************************************)
RECURSIVE SumTotals(_)
SumTotals(h) == IF h = << >> THEN 0 ELSE Head(h).total + SumTotals(Tail(h))

NoQuasiTrial == \A i \in DOMAIN srcs : srcs[i].src # "quasi"

\* C1 as stated: after every completed trial the aggregate sums to
\* (completed trials) * shots, whatever source the trials used
C1_SumIsTrialsTimesShots ==
    (pc \in {"loop", "done", "raised"}) => SumValues(aggregated) = done * shots

\* C1 as amended: the aggregate sums to the total of the per-trial counts;
\* that is (completed trials) * shots when every completed trial took flat
\* simulator counts or a bit-array result
C1_SumOfTrialCounts ==
    (pc \in {"loop", "done", "raised"}) =>
        /\ Len(srcs) = done
        /\ SumValues(aggregated) = SumTotals(srcs)
        /\ NoQuasiTrial => SumValues(aggregated) = done * shots

\* two bit-array trials of two shots each, the second repeating a bitstring
C1_Witness ==
    /\ pc = "loop" /\ done = 2 /\ shots = 2
    /\ srcs[1].src = "bitarray" /\ srcs[2].src = "bitarray"
    /\ Cardinality(DOMAIN aggregated) = 2
    /\ SumValues(aggregated) = 4

\* C6: when the backend call of a trial fails, run ends there: the step that
\* fails changes neither the aggregate, nor the number of completed trials,
\* nor the output, and no step follows it (no retry, no later trial, no
\* summary)
C6_FailureAborts ==
    [][ /\ err = "none"
        /\ (err' = "BackendError") =>
              /\ pc' = "raised"
              /\ aggregated' = aggregated /\ done' = done
              /\ out' = out /\ ~out'.footer ]_vars

\* the second trial of two fails after the first was aggregated
C6_Witness ==
    /\ pc = "raised" /\ err = "BackendError"
    /\ trials = 2 /\ done = 1 /\ shots = 2
    /\ SumValues(aggregated) = 2 /\ ~out.header /\ ~out.footer

TrialError == err \in {"ImportError", "BackendError", "RuntimeError"}

\* C7: for every trials and shots, once all trials have completed, run
\* reports the target's percentage of trials * shots, zero when the target
\* was never observed
C7_ReportsPercentage ==
    (pc \in {"done", "raised"} /\ ~TrialError) =>
        /\ pc = "done" /\ out.footer
        /\ success_pct.den = trials * shots
        /\ success_pct.num = 100 * Get(aggregated, TARGET_STATE)
        /\ (TARGET_STATE \notin DOMAIN aggregated) => success_pct.num = 0

=============================================================================
